---- MODULE Spec2Model ----
(***************************************************************************)
(* Model of the streaming-runner manager (package manager):                *)
(*   - the source controller: Start, Add, Update, the Delete handler, the  *)
(*     per-generation teardown task and the consumer tasks (Spec);         *)
(*   - one generation from feature resolution on: getFeatureDefinitions,   *)
(*     the consumer loop of subscribe and the execution pipeline handle    *)
(*     with registerProgram (SpecPipe), and the same with two consumer     *)
(*     tasks sharing one feature (SpecRace);                               *)
(*   - the schema resolution of getFeature over URI strings (SpecSchema);  *)
(*   - the "headers" extension that handle builds from the metadata of a   *)
(*     message (SpecHeaders).                                              *)
(* Line numbers refer to src/unnamed/part_000.                             *)
(***************************************************************************)
EXTENDS Integers, Sequences, FiniteSets, TLC

(***************************************************************************)
(* Bounds of the model.                                                    *)
(***************************************************************************)
\* length, in tokens, of the schema value of a feature
MaxSchemaLen == 5

\* generations (scopes created at line 156) in one run of the controller
MaxGens == 3
\* feature references of the source in the pipeline model
MaxRefs == 2

(***************************************************************************)
(* Controller state.                                                       *)
(***************************************************************************)
VARIABLES
    ready,      \* manager.ready (line 47)
    cancel,     \* manager.cancel (line 43): 0 is nil, g > 0 cancels gens[g]
    bs,         \* manager.bs (line 46): 0 is nil, g > 0 is generation g's config
    rootDone,   \* the context of Start (line 75) is cancelled
    obj,        \* the watched DataSource: "absent", "present", "deleted"
    hpc,        \* position of the informer's handler thread
    cur,        \* the notification being handled, or handled last
    spc,        \* position of the goroutine of Start (lines 95-100)
    gens,       \* the generations: scope, subscription, teardown task, workers
    panicked    \* the process has died of a nil function call

(***************************************************************************)
(* State of one generation from line 175 on (SpecPipe).                    *)
(***************************************************************************)
VARIABLES
    refs,       \* in.Status.Features with what fetching each reference gives
    features,   \* bs.features (line 112, set at line 175)
    gpc,        \* "resolve" before line 175, "run" after line 176
    scopeDone,  \* the generation's context is cancelled
    wk,         \* the consumer tasks: position, message in hand, pipeline state
    crashed     \* the process has died of a nil pointer dereference in handle

(***************************************************************************)
(* One call of getFeature from line 317 on (SpecSchema), and the headers   *)
(* part of one pass of the loop of handle, lines 348-358 (SpecHeaders).    *)
(***************************************************************************)
VARIABLES
    resolution, \* bs.Schema, ft.Schema, the RegisterSchema answer, the outcome
    envelope    \* msg.Metadata, the keys still to range over, u.RawQuery,
                \* contentType and the "headers" extension

ctlVars == <<ready, cancel, bs, rootDone, obj, hpc, cur, spc, gens, panicked>>

pipeVars == <<refs, features, gpc, scopeDone, wk, crashed>>

auxVars == <<resolution, envelope>>

vars == <<ready, cancel, bs, rootDone, obj, hpc, cur, spc, gens, panicked,
          refs, features, gpc, scopeDone, wk, crashed,
          resolution, envelope>>

(***************************************************************************)
(* Inputs: the DataSource of a notification and the answers of the         *)
(* collaborators during one Add.                                           *)
(***************************************************************************)
Kinds == {"streaming", "other"}

\* values of the "workers" key of the config: a negative one, 0 (also what an
\* absent key gives), one worker, several workers
WorkerValues == {-1, 0, 1, 2}

\* a DataSource as Add reads it: Spec.Kind, whether ParseConfig and Unmarshal
\* succeed, the Workers, Schema and BrokerKind the config decodes to
AllDefs ==
    [kind : Kinds, parseOk : BOOLEAN, unmarshalOk : BOOLEAN,
     workers : WorkerValues, hasSchema : BOOLEAN, brokerKnown : BOOLEAN]

\* a config that ParseConfig could not produce is empty: it decodes to no
\* broker kind, no workers and no schema (line 124-127 logs and goes on)
WellFormed(d) ==
    /\ ~d.parseOk => (d.workers = 0 /\ ~d.hasSchema /\ ~d.brokerKnown)
    /\ ~d.unmarshalOk => (d.workers = 0 /\ ~d.hasSchema /\ ~d.brokerKnown)
    /\ d.kind # "streaming" =>
          (d.parseOk /\ d.unmarshalOk /\ d.workers = 0 /\ ~d.hasSchema /\ d.brokerKnown)

Defs == {d \in AllDefs : WellFormed(d)}

\* answers of the runtime (RegisterSchema) and of the broker (Subscribe)
Envs == [schemaRegOk : BOOLEAN, subscribeOk : BOOLEAN]

NoDef ==
    [kind |-> "other", parseOk |-> TRUE, unmarshalOk |-> TRUE, workers |-> 0,
     hasSchema |-> FALSE, brokerKnown |-> TRUE]

(***************************************************************************)
(* Add, lines 115-180, as a function of its input.                         *)
(***************************************************************************)
\* a slip that would leave a zero worker count as it is
EffectiveWorkers_NoDefault(w) == w

\* line 135-137
EffectiveWorkers(w) == IF w = 0 THEN 1 ELSE w

\* lines 192-216: the loop of subscribe spawns one task per i < bs.Workers
Spawned(w) == IF w > 0 THEN w ELSE 0

\* a slip that would leave out the test of Spec.Kind (lines 117-120)
AddResult_NoKindCheck(d, e) ==
    IF ~d.unmarshalOk THEN "unmarshal"
    ELSE IF d.hasSchema /\ ~e.schemaRegOk THEN "schema"
    ELSE IF ~d.brokerKnown THEN "broker"
    ELSE IF ~e.subscribeOk THEN "subscribe"
    ELSE "started"

\* where Add returns: "kind" line 119, "unmarshal" line 133, "schema" line 143,
\* "broker" line 150, "subscribe" line 164, "started" line 180
AddResult(d, e) ==
    IF d.kind # "streaming" THEN "kind"
    ELSE IF ~d.unmarshalOk THEN "unmarshal"
    ELSE IF d.hasSchema /\ ~e.schemaRegOk THEN "schema"
    ELSE IF ~d.brokerKnown THEN "broker"
    ELSE IF ~e.subscribeOk THEN "subscribe"
    ELSE "started"

\* a slip that would set the flag before the subscription is made
ReadyAfterAdd_Early(res) == res \in {"subscribe", "started"}

\* m.ready when Add returns: false from line 116, true from line 177
ReadyAfterAdd(res) == res = "started"

\* the generation made at line 156; its subscription and tasks exist when
\* Subscribe succeeded
NewGen(d, res) ==
    [cancelled  |-> FALSE,
     subscribed |-> (res = "started"),
     shutdowns  |-> 0,
     td         |-> IF res = "started" THEN "wait" ELSE "none",
     workers    |-> EffectiveWorkers(d.workers),
     spawned    |-> IF res = "started" THEN Spawned(EffectiveWorkers(d.workers)) ELSE 0,
     alive      |-> IF res = "started" THEN Spawned(EffectiveWorkers(d.workers)) ELSE 0]

\* context.CancelFunc of generation g: idempotent
CancelGen(gs, g) == [gs EXCEPT ![g].cancelled = TRUE]

CtlInit ==
    /\ ready = FALSE
    /\ cancel = 0
    /\ bs = 0
    /\ rootDone = FALSE
    /\ obj = "absent"
    /\ hpc = [pc |-> "idle", seen |-> 0]
    /\ cur = [op |-> "none", def |-> NoDef, g0 |-> 0, res |-> "none"]
    /\ spc = [pc |-> "wait", seen |-> 0]
    /\ gens = <<>>
    /\ panicked = FALSE

(***************************************************************************)
(* The informer delivers the notifications of the one watched object one   *)
(* at a time, lines 83-94: a Create first, Updates while it exists, and    *)
(* nothing after the Delete handler has cancelled the context of Start.    *)
(***************************************************************************)
\* AddFunc, line 84-86
NotifyCreate(d) ==
    /\ ~panicked /\ obj = "absent" /\ hpc.pc = "idle" /\ ~rootDone
    /\ obj' = "present"
    /\ hpc' = [pc |-> "add", seen |-> 0]
    /\ cur' = [op |-> "create", def |-> d, g0 |-> Len(gens), res |-> "none"]
    /\ UNCHANGED <<ready, cancel, bs, rootDone, spc, gens, panicked>>
    /\ UNCHANGED <<pipeVars, auxVars>>

\* UpdateFunc, line 87-89
NotifyUpdate(d) ==
    /\ ~panicked /\ obj = "present" /\ hpc.pc = "idle" /\ ~rootDone
    /\ Len(gens) < MaxGens
    /\ hpc' = [pc |-> "check", seen |-> 0]
    /\ cur' = [op |-> "update", def |-> d, g0 |-> Len(gens), res |-> "none"]
    /\ UNCHANGED <<ready, cancel, bs, rootDone, obj, spc, gens, panicked>>
    /\ UNCHANGED <<pipeVars, auxVars>>

\* Update, line 183: the test of m.cancel
UpdateCheck ==
    /\ ~panicked /\ hpc.pc = "check"
    /\ hpc' = IF cancel # 0 THEN [pc |-> "cancel", seen |-> cancel]
                            ELSE [pc |-> "add", seen |-> 0]
    /\ UNCHANGED <<ready, cancel, bs, rootDone, obj, cur, spc, gens, panicked>>
    /\ UNCHANGED <<pipeVars, auxVars>>

\* Update, lines 184-185: the call of m.cancel and m.bs = nil. A teardown task
\* may have set m.cancel to nil since the test (an unsynchronized write): the
\* call then runs the function read at the test, or reads nil and panics.
UpdateCancel ==
    /\ ~panicked /\ hpc.pc = "cancel"
    /\ \/ /\ cancel # 0
          /\ gens' = CancelGen(gens, cancel)
          /\ bs' = 0
          /\ hpc' = [pc |-> "add", seen |-> 0]
          /\ UNCHANGED panicked
       \/ /\ cancel = 0
          /\ gens' = CancelGen(gens, hpc.seen)
          /\ bs' = 0
          /\ hpc' = [pc |-> "add", seen |-> 0]
          /\ UNCHANGED panicked
       \/ /\ cancel = 0
          /\ panicked' = TRUE
          /\ UNCHANGED <<gens, bs, hpc>>
    /\ UNCHANGED <<ready, cancel, rootDone, obj, cur, spc>>
    /\ UNCHANGED <<pipeVars, auxVars>>

\* Add, lines 115-180
Add(e) ==
    /\ ~panicked /\ hpc.pc = "add"
    /\ LET d   == cur.def
           res == AddResult(d, e)
           g   == Len(gens) + 1
       IN  /\ ready' = ReadyAfterAdd(res)
           /\ IF res \in {"subscribe", "started"}
                 THEN /\ gens' = Append(gens, NewGen(d, res))
                      /\ cancel' = g
                 ELSE UNCHANGED <<gens, cancel>>
           /\ bs' = IF res = "started" THEN g ELSE bs
           /\ cur' = [cur EXCEPT !.res = res]
    /\ hpc' = [pc |-> "idle", seen |-> 0]
    /\ UNCHANGED <<rootDone, obj, spc, panicked>>
    /\ UNCHANGED <<pipeVars, auxVars>>

\* DeleteFunc, lines 90-93
NotifyDelete ==
    /\ ~panicked /\ obj = "present" /\ hpc.pc = "idle" /\ ~rootDone
    /\ obj' = "deleted"
    /\ rootDone' = TRUE
    /\ cur' = [op |-> "delete", def |-> NoDef, g0 |-> Len(gens), res |-> "none"]
    /\ UNCHANGED <<ready, cancel, bs, hpc, spc, gens, panicked>>
    /\ UNCHANGED <<pipeVars, auxVars>>

(***************************************************************************)
(* The goroutine of Start, lines 95-100.                                   *)
(***************************************************************************)
\* lines 96-97: the context is done, the test of m.cancel
StartCheck ==
    /\ ~panicked /\ spc.pc = "wait" /\ rootDone
    /\ spc' = IF cancel # 0 THEN [pc |-> "cancel", seen |-> cancel]
                            ELSE [pc |-> "done", seen |-> 0]
    /\ UNCHANGED <<ready, cancel, bs, rootDone, obj, hpc, cur, gens, panicked>>
    /\ UNCHANGED <<pipeVars, auxVars>>

\* line 98: the call of m.cancel, racing with the teardown task as in Update
StartCancel ==
    /\ ~panicked /\ spc.pc = "cancel"
    /\ \/ /\ cancel # 0
          /\ gens' = CancelGen(gens, cancel)
          /\ spc' = [pc |-> "done", seen |-> 0]
          /\ UNCHANGED panicked
       \/ /\ cancel = 0
          /\ gens' = CancelGen(gens, spc.seen)
          /\ spc' = [pc |-> "done", seen |-> 0]
          /\ UNCHANGED panicked
       \/ /\ cancel = 0
          /\ panicked' = TRUE
          /\ UNCHANGED <<gens, spc>>
    /\ UNCHANGED <<ready, cancel, bs, rootDone, obj, hpc, cur>>
    /\ UNCHANGED <<pipeVars, auxVars>>

(***************************************************************************)
(* The teardown task of a generation, lines 166-173.                       *)
(***************************************************************************)
\* lines 167-168: the scope is done, Shutdown
TeardownShutdown(g) ==
    /\ ~panicked /\ gens[g].td = "wait" /\ gens[g].cancelled
    /\ gens' = [gens EXCEPT ![g].shutdowns = @ + 1, ![g].td = "clear"]
    /\ UNCHANGED <<ready, cancel, bs, rootDone, obj, hpc, cur, spc, panicked>>
    /\ UNCHANGED <<pipeVars, auxVars>>

\* line 172: m.cancel = nil, whichever generation m.cancel belongs to
TeardownClear(g) ==
    /\ ~panicked /\ gens[g].td = "clear"
    /\ cancel' = 0
    /\ gens' = [gens EXCEPT ![g].td = "done"]
    /\ UNCHANGED <<ready, bs, rootDone, obj, hpc, cur, spc, panicked>>
    /\ UNCHANGED <<pipeVars, auxVars>>

(***************************************************************************)
(* A consumer task of generation g leaves its loop, lines 196-203: the     *)
(* scope is done, or Receive fails (cancelled, shut down, broker failure). *)
(***************************************************************************)
WorkerExit(g) ==
    /\ ~panicked /\ gens[g].alive > 0
    /\ gens' = [gens EXCEPT ![g].alive = @ - 1]
    /\ UNCHANGED <<ready, cancel, bs, rootDone, obj, hpc, cur, spc, panicked>>
    /\ UNCHANGED <<pipeVars, auxVars>>

Next ==
    \/ \E d \in Defs : NotifyCreate(d)
    \/ \E d \in Defs : NotifyUpdate(d)
    \/ UpdateCheck
    \/ UpdateCancel
    \/ \E e \in Envs : Add(e)
    \/ NotifyDelete
    \/ StartCheck
    \/ StartCancel
    \/ \E g \in 1 .. Len(gens) : TeardownShutdown(g)
    \/ \E g \in 1 .. Len(gens) : TeardownClear(g)
    \/ \E g \in 1 .. Len(gens) : WorkerExit(g)

(***************************************************************************)
(* Feature resolution, lines 281-337, and registerProgram, lines 264-278.  *)
(***************************************************************************)
\* the execution attempts of handle for one feature (line 390)
MaxTries == 3

\* fingerprints the runtime may answer with; 0 is the empty programSha1
Shas == {1, 2}

\* a LoadPyExpProgram response whose uuid is not the request's; the
\* fingerprint it carries is one no echoing response carries
BadUuidAnswer == [kind |-> "baduuid", sha |-> 3]

\* answers to LoadPyExpProgram: an error of the runtime, the call ended with
\* status Canceled because its context is done, a response with another
\* uuid, or a response that echoes the uuid and carries a fingerprint
RegAnswers ==
    {[kind |-> "error", sha |-> 0], [kind |-> "canceled", sha |-> 0],
     BadUuidAnswer}
        \cup {[kind |-> "ok", sha |-> s] : s \in Shas}

\* answers of the runtime to RegisterSchema
SchemaAnswers == {"ok", "error", "baduuid"}

\* answers to ExecutePyExp: a response echoing the uuid, status NotFound,
\* another error of the runtime, a response with another uuid, the call
\* ended with status Canceled because its context is done
ExecAnswers == {"ok", "notfound", "error", "baduuid", "canceled"}

\* lines 383 and 266: the calls are made with the context of the generation,
\* so a call ends with status Canceled only once that scope is done; a call
\* whose response is already there when the scope ends returns it
CtxAllows(done, kind) == kind = "canceled" => done

\* a feature reference with what resolving it meets: client.Get (line 301),
\* json.Unmarshal (line 307), the builder kind (line 312), RegisterSchema
\* when the feature's schema calls for it (line 321; "ok" also when no call
\* is made), LoadPyExpProgram
AllRefs ==
    [fetchOk : BOOLEAN, decodeOk : BOOLEAN, kind : Kinds,
     schema : SchemaAnswers, prog : {"ok", "error", "baduuid"}]

\* one reference for each way getFeature can return
Refs ==
    {r \in AllRefs :
        /\ ~r.fetchOk => (r.decodeOk /\ r.kind = "streaming" /\ r.schema = "ok")
        /\ ~r.decodeOk => (r.kind = "streaming" /\ r.schema = "ok")
        /\ r.kind # "streaming" => r.schema = "ok"
        /\ r.schema # "ok" => r.prog = "ok"
        /\ (~r.fetchOk \/ ~r.decodeOk \/ r.kind # "streaming") => r.prog = "ok"}

RefSeqs == UNION {[1 .. n -> Refs] : n \in 0 .. MaxRefs}

\* a nil *Feature, and the Feature made from reference i (its FQN)
NilFeature == [nil |-> TRUE, ref |-> 0, sha |-> 0]
Feature(i) == [nil |-> FALSE, ref |-> i, sha |-> 0]

\* registerSchema, lines 250-263: an error when the call fails (line 257) and
\* when the response does not echo the uuid (line 260)
registerSchema(a) == [err |-> a # "ok"]

\* registerProgram storing whatever fingerprint the response carries
registerProgram_UuidUnchecked(ft, a) ==
    IF a.kind \in {"ok", "baduuid"}
        THEN [ft |-> [ft EXCEPT !.sha = a.sha], err |-> FALSE]
        ELSE [ft |-> ft, err |-> TRUE]

\* registerProgram, lines 264-278: the fingerprint is stored only when the
\* call succeeded and the uuid was echoed
registerProgram(ft, a) ==
    IF a.kind = "ok"
        THEN [ft |-> [ft EXCEPT !.sha = a.sha], err |-> FALSE]
        ELSE [ft |-> ft, err |-> TRUE]

\* getFeature, lines 299-337, for reference i: (nil, err) at lines 303, 309,
\* 313 and 323, (ft, registerProgram(ft)) at line 336
getFeature(i, r) ==
    IF ~r.fetchOk THEN [ft |-> NilFeature, err |-> TRUE]
    ELSE IF ~r.decodeOk THEN [ft |-> NilFeature, err |-> TRUE]
    ELSE IF r.kind # "streaming" THEN [ft |-> NilFeature, err |-> TRUE]
    ELSE IF registerSchema(r.schema).err THEN [ft |-> NilFeature, err |-> TRUE]
    ELSE registerProgram(Feature(i),
             IF r.prog = "ok" THEN [kind |-> "ok", sha |-> 1]
             ELSE IF r.prog = "baduuid" THEN BadUuidAnswer
             ELSE [kind |-> "error", sha |-> 0])

\* getFeatureDefinitions, lines 281-298: the error is logged (line 293) and
\* the returned pointer is appended whatever it is (line 295)
getFeatureDefinitions(rs) == [i \in 1 .. Len(rs) |-> getFeature(i, rs[i]).ft]

(***************************************************************************)
(* The consumer tasks, lines 191-217, and handle, lines 339-402.           *)
(***************************************************************************)
PipeWorkers == {"w1"}

IdleWorker ==
    [pc |-> "none", nackable |-> FALSE, acks |-> 0, nacks |-> 0, fi |-> 0,
     tries |-> 0, reqSha |-> 0, resps |-> <<>>, regs |-> <<>>, calls |-> <<>>,
     result |-> "none"]

\* a slip that would stop retrying one attempt early
RetryAllowed_TwoAttempts(tries) == tries < 2

\* a slip that would allow a fourth attempt
RetryAllowed_FourAttempts(tries) == tries <= MaxTries

\* line 390
RetryAllowed(tries) == tries < MaxTries

\* a slip that would go on with the next feature after a failed execution
ExecOutcome_SkipFailed(a) ==
    IF a = "ok" THEN "next"
    ELSE IF a = "notfound" THEN "rereg"
    ELSE "next"

\* lines 383-399: what handle does with the answer of ExecutePyExp
ExecOutcome(a) ==
    IF a = "ok" THEN "next"
    ELSE IF a = "notfound" THEN "rereg"
    ELSE "fail"

PipeInit ==
    /\ refs \in RefSeqs
    /\ features = <<>>
    /\ gpc = "resolve"
    /\ scopeDone = FALSE
    /\ wk = [w \in PipeWorkers |-> IdleWorker]
    /\ crashed = FALSE

\* Add, lines 175-176: the features are resolved and the tasks spawned
Resolve ==
    /\ gpc = "resolve"
    /\ features' = getFeatureDefinitions(refs)
    /\ wk' = [w \in DOMAIN wk |-> [IdleWorker EXCEPT !.pc = "loop"]]
    /\ gpc' = "run"
    /\ UNCHANGED <<refs, scopeDone, crashed>>
    /\ UNCHANGED <<ctlVars, auxVars>>

\* the generation's scope is cancelled (by Update or by the goroutine of Start)
ScopeCancel ==
    /\ gpc = "run" /\ ~crashed /\ ~scopeDone
    /\ scopeDone' = TRUE
    /\ UNCHANGED <<refs, features, gpc, wk, crashed>>
    /\ UNCHANGED <<ctlVars, auxVars>>

\* lines 195-198: the select of the loop
WSelect(w) ==
    /\ ~crashed /\ wk[w].pc = "loop"
    /\ wk' = [wk EXCEPT ![w].pc = IF scopeDone THEN "exited" ELSE "recv"]
    /\ UNCHANGED <<refs, features, gpc, scopeDone, crashed>>
    /\ UNCHANGED <<ctlVars, auxVars>>

\* lines 199-203: Receive fails (the scope is done, the subscription is shut
\* down, the broker fails) and the task returns
WReceiveError(w) ==
    /\ ~crashed /\ wk[w].pc = "recv"
    /\ wk' = [wk EXCEPT ![w].pc = "exited"]
    /\ UNCHANGED <<refs, features, gpc, scopeDone, crashed>>
    /\ UNCHANGED <<ctlVars, auxVars>>

\* lines 199-205: Receive gives a message and handle is entered
WReceive(w, n) ==
    /\ ~crashed /\ wk[w].pc = "recv" /\ ~scopeDone
    /\ wk' = [wk EXCEPT ![w] =
                 [IdleWorker EXCEPT !.pc = "feat", !.nackable = n, !.fi = 1]]
    /\ UNCHANGED <<refs, features, gpc, scopeDone, crashed>>
    /\ UNCHANGED <<ctlVars, auxVars>>

\* lines 340-381: the next feature of the loop of handle; the envelope is
\* built from ft.Schema (a nil ft panics at line 345), encoded (errors at
\* lines 362, 367, 371) and the request made with ft.programSha1
WNextFeature(w, encOk) ==
    /\ ~crashed /\ wk[w].pc = "feat"
    /\ LET k == wk[w].fi IN
       IF k > Len(features)
          THEN /\ wk' = [wk EXCEPT ![w].pc = "finish", ![w].result = "ok"]
               /\ UNCHANGED crashed
       ELSE IF features[k].nil
          THEN /\ crashed' = TRUE
               /\ UNCHANGED wk
       ELSE IF ~encOk
          THEN /\ wk' = [wk EXCEPT ![w].pc = "finish", ![w].result = "fail",
                                   ![w].resps = <<>>, ![w].regs = <<>>]
               /\ UNCHANGED crashed
       ELSE /\ wk' = [wk EXCEPT ![w].pc = "exec", ![w].tries = 1,
                                ![w].reqSha = features[k].sha,
                                ![w].resps = <<>>, ![w].regs = <<>>]
            /\ UNCHANGED crashed
    /\ UNCHANGED <<refs, features, gpc, scopeDone>>
    /\ UNCHANGED <<ctlVars, auxVars>>

\* lines 383-399: one ExecutePyExp call and its answer
WExecute(w, a) ==
    /\ ~crashed /\ wk[w].pc = "exec"
    /\ CtxAllows(scopeDone, a)
    /\ LET o == ExecOutcome(a)
           u == [wk[w] EXCEPT !.resps = Append(@, a),
                              !.calls = Append(@, wk[w].fi)]
       IN  wk' = [wk EXCEPT ![w] =
                     IF o = "next" THEN [u EXCEPT !.pc = "feat", !.fi = @ + 1]
                     ELSE IF o = "rereg" THEN [u EXCEPT !.pc = "rereg"]
                     ELSE [u EXCEPT !.pc = "finish", !.result = "fail"]]
    /\ UNCHANGED <<refs, features, gpc, scopeDone, crashed>>
    /\ UNCHANGED <<ctlVars, auxVars>>

\* lines 386-395: registerProgram after NotFound, then another attempt or
\* the error of line 395
WReregister(w, a) ==
    /\ ~crashed /\ wk[w].pc = "rereg"
    /\ CtxAllows(scopeDone, a.kind)
    /\ LET k == wk[w].fi
           r == registerProgram(features[k], a)
           u == [wk[w] EXCEPT !.regs = Append(@, a.kind)]
       IN  /\ features' = [features EXCEPT ![k] = r.ft]
           /\ wk' = [wk EXCEPT ![w] =
                        IF r.err
                           THEN [u EXCEPT !.pc = "finish", !.result = "fail"]
                        ELSE IF RetryAllowed(wk[w].tries)
                           THEN [u EXCEPT !.pc = "exec", !.tries = @ + 1]
                        ELSE [u EXCEPT !.pc = "finish", !.result = "fail"]]
    /\ UNCHANGED <<refs, gpc, scopeDone, crashed>>
    /\ UNCHANGED <<ctlVars, auxVars>>

\* lines 205-212: handle has returned; Nack when it failed and the message is
\* nackable, then Ack, and back to the loop
WFinish(w) ==
    /\ ~crashed /\ wk[w].pc = "finish"
    /\ wk' = [wk EXCEPT ![w].pc = "loop",
                        ![w].nacks = IF wk[w].result = "fail" /\ wk[w].nackable
                                        THEN @ + 1 ELSE @,
                        ![w].acks = @ + 1]
    /\ UNCHANGED <<refs, features, gpc, scopeDone, crashed>>
    /\ UNCHANGED <<ctlVars, auxVars>>

NextPipe ==
    \/ Resolve
    \/ ScopeCancel
    \/ \E w \in PipeWorkers : WSelect(w)
    \/ \E w \in PipeWorkers : WReceiveError(w)
    \/ \E w \in PipeWorkers : \E n \in BOOLEAN : WReceive(w, n)
    \/ \E w \in PipeWorkers : \E encOk \in BOOLEAN : WNextFeature(w, encOk)
    \/ \E w \in PipeWorkers : \E a \in ExecAnswers : WExecute(w, a)
    \/ \E w \in PipeWorkers : \E a \in RegAnswers : WReregister(w, a)
    \/ \E w \in PipeWorkers : WFinish(w)

(***************************************************************************)
(* Two consumer tasks of one generation (workers: 2).  The tasks share the *)
(* *Feature values of bs.features: handle ranges over the same pointers.   *)
(***************************************************************************)
RaceWorkers == {"w1", "w2"}

\* task w is in registerProgram for feature k: its next step is the
\* assignment to ft.programSha1 of line 276
WritesSha(w, k) == wk[w].pc = "rereg" /\ wk[w].fi = k

\* task w is about to read ft.programSha1 of feature k at line 377
ReadsSha(w, k) ==
    wk[w].pc = "feat" /\ wk[w].fi = k /\ k <= Len(features) /\ ~features[k].nil

\* line 377 while another task is at the assignment of line 276 for the same
\* Feature: the read of the string is not ordered with the write of it, and
\* besides the old and the new value (the two orders of the steps) it can
\* give a string header that is half of each, whose use faults
WTornRead(w) ==
    /\ ~crashed
    /\ ReadsSha(w, wk[w].fi)
    /\ \E v \in DOMAIN wk \ {w} : WritesSha(v, wk[w].fi)
    /\ crashed' = TRUE
    /\ UNCHANGED <<refs, features, gpc, scopeDone, wk>>
    /\ UNCHANGED <<ctlVars, auxVars>>

\* a generation with one feature, resolved and registered
RaceInit ==
    /\ refs = <<[fetchOk |-> TRUE, decodeOk |-> TRUE, kind |-> "streaming",
                 schema |-> "ok", prog |-> "ok"]>>
    /\ features = <<>>
    /\ gpc = "resolve"
    /\ scopeDone = FALSE
    /\ wk = [w \in RaceWorkers |-> IdleWorker]
    /\ crashed = FALSE

NextRace ==
    \/ Resolve
    \/ ScopeCancel
    \/ \E w \in RaceWorkers : WSelect(w)
    \/ \E w \in RaceWorkers : WReceiveError(w)
    \/ \E w \in RaceWorkers : \E n \in BOOLEAN : WReceive(w, n)
    \/ \E w \in RaceWorkers : \E encOk \in BOOLEAN : WNextFeature(w, encOk)
    \/ \E w \in RaceWorkers : \E a \in ExecAnswers : WExecute(w, a)
    \/ \E w \in RaceWorkers : \E a \in RegAnswers : WReregister(w, a)
    \/ \E w \in RaceWorkers : WFinish(w)
    \/ \E w \in RaceWorkers : WTornRead(w)

(***************************************************************************)
(* Schema resolution, getFeature lines 317-334.  A string is a sequence of *)
(* tokens: the letters "a" and "b", "://" (the characters ':' '/' '/'),    *)
(* "#", and, in what String writes, "%23" (an escaped '#').                *)
(***************************************************************************)
SchemaTokens == {"a", "b", "://", "#"}

SchemaStrings == UNION {[1 .. n -> SchemaTokens] : n \in 0 .. MaxSchemaLen}

\* the position of the first token t of s, 0 when there is none
RECURSIVE IndexFrom(_, _, _)
IndexFrom(s, t, i) ==
    IF i > Len(s) THEN 0
    ELSE IF s[i] = t THEN i
    ELSE IndexFrom(s, t, i + 1)

Index(s, t) == IndexFrom(s, t, 1)

\* net/url unescape and escape in fragment mode: of the tokens at hand only
\* '#' is written escaped; ':' and '/' are left as they are
UnescapeFragment(s) == [i \in 1 .. Len(s) |-> IF s[i] = "%23" THEN "#" ELSE s[i]]
EscapeFragment(s) == [i \in 1 .. Len(s) |-> IF s[i] = "#" THEN "%23" ELSE s[i]]

\* a nil *url.URL, and the URL with a scheme, a host and a fragment
NilURL == [nil |-> TRUE, scheme |-> <<>>, host |-> <<>>, fragment |-> <<>>]
URL(sc, h, f) == [nil |-> FALSE, scheme |-> sc, host |-> h, fragment |-> f]

\* url.Parse (line 318): the fragment is what follows the first '#'; a scheme
\* is the letters before the first ':' and a ':' with nothing before it is
\* the error "missing protocol scheme"; after "scheme:" the authority runs
\* from "//" to the next '/', so that a second "://" leaves its ':' as an
\* empty port at the end of the host; without a scheme the rest is a path
Parse(s) ==
    LET h == Index(s, "#")
        rest == IF h = 0 THEN s ELSE SubSeq(s, 1, h - 1)
        frag == IF h = 0 THEN <<>> ELSE SubSeq(s, h + 1, Len(s))
        c == Index(rest, "://")
        auth == SubSeq(rest, c + 1, Len(rest))
        c2 == Index(auth, "://")
    IN  IF c = 1 THEN [err |-> TRUE, url |-> NilURL]
        ELSE IF c = 0
            THEN [err |-> FALSE, url |-> URL(<<>>, <<>>, UnescapeFragment(frag))]
        ELSE [err |-> FALSE,
              url |-> URL(SubSeq(rest, 1, c - 1),
                          IF c2 = 0 THEN auth
                                    ELSE Append(SubSeq(auth, 1, c2 - 1), ":"),
                          UnescapeFragment(frag))]

\* URL.String (lines 330 and 333) of a URL with a scheme and a host
String(u) ==
    u.scheme \o <<"://">> \o u.host \o
        (IF u.fragment = <<>> THEN <<>> ELSE <<"#">> \o EscapeFragment(u.fragment))

\* the test of line 319 without its fragment part
FullyQualified_FragmentOptional(p) ==
    ~p.err /\ p.url.scheme # <<>> /\ p.url.host # <<>>

\* line 319
FullyQualified(p) ==
    ~p.err /\ p.url.scheme # <<>> /\ p.url.host # <<>> /\ p.url.fragment # <<>>

\* the source schemas: none (bs.Schema is nil), or a URL with scheme and host
SourceSchemas ==
    {NilURL} \cup {URL(<<sc>>, <<h>>, <<>>) : sc \in {"a", "b"}, h \in {"a", "b"}}

\* lines 317-334 for the source schema src, the feature's schema value and
\* the answer to RegisterSchema: the resulting ft.Schema, the RegisterSchema
\* calls made, the error of line 323, and the nil dereference of bs.Schema
\* (lines 320, 328, 333) when the source has no schema
resolveSchema(src, value, answer) ==
    IF src.nil
        THEN [schema |-> value, regs |-> 0, err |-> FALSE, panic |-> TRUE]
    ELSE IF value = <<>>
        THEN [schema |-> String(src), regs |-> 0, err |-> FALSE, panic |-> FALSE]
    ELSE IF FullyQualified(Parse(value))
        THEN IF ~(Parse(value).url.scheme = src.scheme
                    /\ Parse(value).url.host = src.host)
                THEN [schema |-> value, regs |-> 1,
                      err |-> registerSchema(answer).err, panic |-> FALSE]
                ELSE [schema |-> value, regs |-> 0, err |-> FALSE, panic |-> FALSE]
    ELSE [schema |-> String([src EXCEPT !.fragment = value]), regs |-> 0,
          err |-> FALSE, panic |-> FALSE]

NoOutcome == [schema |-> <<>>, regs |-> 0, err |-> FALSE, panic |-> FALSE]

NoResolution ==
    [pc |-> "none", src |-> NilURL, value |-> <<>>, answer |-> "ok",
     out |-> NoOutcome]

SchemaInit ==
    resolution \in [pc : {"in"}, src : SourceSchemas, value : SchemaStrings,
                    answer : SchemaAnswers, out : {NoOutcome}]

\* getFeature runs lines 317-334
ResolveSchema ==
    /\ resolution.pc = "in"
    /\ resolution' = [resolution EXCEPT
                         !.pc = "out",
                         !.out = resolveSchema(resolution.src, resolution.value,
                                               resolution.answer)]
    /\ UNCHANGED <<ctlVars, pipeVars, envelope>>

NextSchema == ResolveSchema

(***************************************************************************)
(* The "headers" extension, handle lines 348-358.  Keys and values are     *)
(* sequences of tokens; '&' and '=' are written "%26" and "%3D" in a query.*)
(***************************************************************************)
\* the keys in the order of sort.Strings
HeaderKeys == << <<"content-type">>, <<"k">>, <<"k", "&">> >>

HeaderValues == { <<"v">>, <<"v", "=">> }

KeySet == {HeaderKeys[i] : i \in 1 .. Len(HeaderKeys)}

\* msg.Metadata: a map[string]string
Metadatas == UNION {[ks -> HeaderValues] : ks \in SUBSET KeySet}

QueryEscape(s) ==
    [i \in 1 .. Len(s) |->
        IF s[i] = "&" THEN "%26" ELSE IF s[i] = "=" THEN "%3D" ELSE s[i]]

QueryUnescape(s) ==
    [i \in 1 .. Len(s) |->
        IF s[i] = "%26" THEN "&" ELSE IF s[i] = "%3D" THEN "=" ELSE s[i]]

\* url.Values.Add
ValuesAdd(vals, k, v) ==
    IF k \in DOMAIN vals THEN [vals EXCEPT ![k] = Append(@, v)]
                         ELSE vals @@ (k :> <<v>>)

\* url.ParseQuery: the pairs between '&', each cut at its first '=', added
\* in their order to the values parsed so far
RECURSIVE ParseQueryInto(_, _)
ParseQueryInto(vals, q) ==
    IF q = <<>> THEN vals
    ELSE LET a == Index(q, "&")
             pair == IF a = 0 THEN q ELSE SubSeq(q, 1, a - 1)
             rest == IF a = 0 THEN <<>> ELSE SubSeq(q, a + 1, Len(q))
             e == Index(pair, "=")
             k == IF e = 0 THEN pair ELSE SubSeq(pair, 1, e - 1)
             v == IF e = 0 THEN <<>> ELSE SubSeq(pair, e + 1, Len(pair))
         IN  IF pair = <<>> THEN ParseQueryInto(vals, rest)
             ELSE ParseQueryInto(ValuesAdd(vals, QueryUnescape(k), QueryUnescape(v)),
                                 rest)

ParseQuery(q) == ParseQueryInto(<<>>, q)

\* the pairs "key=value" of one key, joined by '&'
RECURSIVE EncodeKey(_, _, _)
EncodeKey(k, vs, i) ==
    IF i > Len(vs) THEN <<>>
    ELSE QueryEscape(k) \o <<"=">> \o QueryEscape(vs[i]) \o
            (IF i < Len(vs) THEN <<"&">> \o EncodeKey(k, vs, i + 1) ELSE <<>>)

\* url.Values.Encode: the keys in sorted order
RECURSIVE EncodeFrom(_, _)
EncodeFrom(vals, i) ==
    IF i > Len(HeaderKeys) THEN <<>>
    ELSE LET k == HeaderKeys[i]
             here == IF k \in DOMAIN vals THEN EncodeKey(k, vals[k], 1) ELSE <<>>
             rest == EncodeFrom(vals, i + 1)
         IN  IF here = <<>> THEN rest
             ELSE IF rest = <<>> THEN here
             ELSE here \o <<"&">> \o rest

Encode(vals) == EncodeFrom(vals, 1)

\* URL.Query (lines 354, 357): a new url.Values parsed from u.RawQuery
Query(rawQuery) == ParseQuery(rawQuery)

\* u.RawQuery after `u.Query().Add(k, v)` (line 354): the pair is added to
\* the map that Query returned, and that map is dropped
QueryAdd(rawQuery, k, v) ==
    LET dropped == ValuesAdd(Query(rawQuery), k, v)
    IN  rawQuery

NoEnvelope ==
    [pc |-> "none", md |-> <<>>, todo |-> {}, rawQuery |-> <<>>,
     contentType |-> <<>>, headers |-> <<>>]

HeadersInit ==
    \E m \in Metadatas :
        envelope = [pc |-> "range", md |-> m, todo |-> DOMAIN m,
                    rawQuery |-> <<>>, contentType |-> <<>>, headers |-> <<>>]

\* lines 350-355: one pass of the range over msg.Metadata, in any order
HeaderRange(k) ==
    /\ envelope.pc = "range"
    /\ k \in envelope.todo
    /\ envelope' = [envelope EXCEPT
                       !.todo = @ \ {k},
                       !.contentType = IF k = <<"content-type">>
                                          THEN envelope.md[k] ELSE @,
                       !.rawQuery = QueryAdd(@, k, envelope.md[k])]
    /\ UNCHANGED <<ctlVars, pipeVars, resolution>>

\* lines 357-358: RawQuery is encoded and the URL set as the extension
HeaderEncode ==
    /\ envelope.pc = "range"
    /\ envelope.todo = {}
    /\ envelope' = [envelope EXCEPT
                       !.pc = "set",
                       !.rawQuery = Encode(Query(@)),
                       !.headers = Encode(Query(envelope.rawQuery))]
    /\ UNCHANGED <<ctlVars, pipeVars, resolution>>

NextHeaders ==
    \/ \E k \in KeySet : HeaderRange(k)
    \/ HeaderEncode

AuxIdle == resolution = NoResolution /\ envelope = NoEnvelope

(***************************************************************************)
(* The specifications.                                                     *)
(***************************************************************************)
\* the pipeline variables at rest, for the controller's specification
PipeIdle ==
    /\ refs = <<>>
    /\ features = <<>>
    /\ gpc = "resolve"
    /\ scopeDone = FALSE
    /\ wk = [w \in PipeWorkers |-> IdleWorker]
    /\ crashed = FALSE

Init == CtlInit /\ PipeIdle /\ AuxIdle

\* the controller with its teardown and consumer tasks
Spec == Init /\ [][Next]_vars

InitPipe == PipeInit /\ CtlInit /\ AuxIdle

\* one generation from feature resolution on
SpecPipe == InitPipe /\ [][NextPipe]_vars

InitRace == RaceInit /\ CtlInit /\ AuxIdle

\* one generation with two consumer tasks and one feature
SpecRace == InitRace /\ [][NextRace]_vars

InitSchema == CtlInit /\ PipeIdle /\ SchemaInit /\ envelope = NoEnvelope

\* one schema resolution of getFeature
SpecSchema == InitSchema /\ [][NextSchema]_vars

InitHeaders == CtlInit /\ PipeIdle /\ HeadersInit /\ resolution = NoResolution

\* the headers of one envelope
SpecHeaders == InitHeaders /\ [][NextHeaders]_vars

(***************************************************************************)
(* Properties of the controller.                                           *)
(***************************************************************************)
GenIds == 1 .. Len(gens)

\* generation g is active: Subscribe succeeded, its scope is not cancelled
\* and consumer tasks are receiving from its subscription
Active(g) == gens[g].subscribed /\ ~gens[g].cancelled /\ gens[g].alive > 0

\* a Create or Update notification has been handled to its end
Handled == ~panicked /\ hpc.pc = "idle" /\ cur.op \in {"create", "update"}

\* the handling made a scope and Subscribe succeeded / failed
StartedNow == Len(gens) = cur.g0 + 1 /\ gens[Len(gens)].subscribed
SubscribeFailedNow == Len(gens) = cur.g0 + 1 /\ ~gens[Len(gens)].subscribed

\* C1: at most one generation is active at any time, and a generation whose
\* Subscribe succeeded finds the scope of every earlier generation cancelled.
C1_AtMostOneActiveGeneration ==
    /\ Cardinality({g \in GenIds : Active(g)}) <= 1
    /\ \A g \in GenIds : \A h \in GenIds :
          (h < g /\ gens[g].subscribed /\ Active(h)) => gens[h].cancelled

\* C6: after a Create or Update whose definition is not of kind "streaming"
\* has been handled, no scope was made and no Subscribe call happened in that
\* handling (no subscription, no consumer task), and the readiness flag is false.
C6_NonStreamingNeverSubscribes ==
    (Handled /\ cur.def.kind # "streaming") =>
        (Len(gens) = cur.g0 /\ ~ready)

\* witness of C6: an Update of another kind was handled after a generation
\* had been started and had made the manager ready
C6_Witness ==
    /\ Handled /\ cur.op = "update" /\ cur.def.kind # "streaming"
    /\ cur.g0 >= 1 /\ gens[1].subscribed

C9_DefaultWorkerCount ==
    (Handled /\ StartedNow /\ cur.def.workers >= 0) =>
        /\ cur.def.workers = 0 => gens[Len(gens)].workers = 1
        /\ cur.def.workers > 0 => gens[Len(gens)].workers = cur.def.workers
        /\ gens[Len(gens)].spawned = gens[Len(gens)].workers
        /\ gens[Len(gens)].spawned >= 1

\* witness of C9: a generation was started from a config without workers
C9_Witness ==
    /\ Handled /\ StartedNow /\ cur.def.workers = 0
    /\ gens[Len(gens)].spawned = 1

\* no step of the goroutine of Start or of a teardown task is left to take
Quiescent ==
    /\ ~panicked /\ obj = "deleted" /\ spc.pc = "done"
    /\ \A g \in GenIds :
          /\ gens[g].td # "clear"
          /\ ~(gens[g].td = "wait" /\ gens[g].cancelled)

\* C10: once Delete has been handled and the goroutine of Start and the
\* teardown tasks have run as far as they can, every generation whose
\* Subscribe succeeded has its scope cancelled and its subscription shut
\* down, and no generation was started after the Delete.
C10_DeleteStopsActiveGeneration ==
    Quiescent =>
        /\ \A g \in GenIds :
              (gens[g].subscribed /\ gens[g].spawned > 0) =>
                  (gens[g].cancelled /\ gens[g].shutdowns = 1)
        /\ Len(gens) = cur.g0

(***************************************************************************)
(* Properties of the consumer tasks and of the execution pipeline.         *)
(***************************************************************************)
\* the task has finished with the message in hand (lines 205-212 are done)
Finished(w) == wk[w].pc \in {"loop", "recv", "exited"} /\ wk[w].result # "none"

\* the ExecutePyExp calls made for feature k of the message in hand
ExecCalls(w, k) == Cardinality({i \in 1 .. Len(wk[w].calls) : wk[w].calls[i] = k})

\* C2: a message whose pipeline succeeded is acknowledged; a message whose
\* pipeline failed is negatively-acknowledged when nackable, otherwise dropped,
\* and is never acknowledged; either way the task is back at its loop.
C2_AckOnSuccessNackOnFailure ==
    \A w \in PipeWorkers :
        /\ (Finished(w) /\ wk[w].result = "ok") =>
              (wk[w].acks = 1 /\ wk[w].nacks = 0)
        /\ (Finished(w) /\ wk[w].result = "fail") =>
              /\ wk[w].acks = 0
              /\ wk[w].nacks = IF wk[w].nackable THEN 1 ELSE 0
        /\ wk[w].pc = "finish" => ENABLED WFinish(w)

\* C3: for one message and one feature, after NotFound twice with both
\* re-registrations succeeding a third execution call is made and the pipeline
\* has not failed; when that third call succeeds the feature is done (the
\* pipeline moves on or returns success) with exactly 3 execution calls and
\* exactly 2 re-registration calls.
C3_RetryTwiceThenSucceed ==
    \A w \in PipeWorkers :
        /\ (wk[w].resps = <<"notfound", "notfound">> /\ wk[w].regs = <<"ok", "ok">>) =>
              (wk[w].pc = "exec" /\ wk[w].result = "none" /\ wk[w].tries = 3)
        /\ wk[w].resps = <<"notfound", "notfound", "ok">> =>
              /\ wk[w].regs = <<"ok", "ok">>
              /\ wk[w].result \in {"none", "ok"}
              /\ wk[w].pc \in {"feat", "finish", "loop", "recv", "exited"}
              /\ ExecCalls(w, wk[w].fi - 1) = 3
              /\ ExecCalls(w, wk[w].fi) = 0

\* witness of C3: a message whose only feature met NotFound twice and then
\* succeeded has been handled with success
C3_Witness ==
    \E w \in PipeWorkers :
        /\ wk[w].resps = <<"notfound", "notfound", "ok">>
        /\ Finished(w) /\ wk[w].result = "ok" /\ wk[w].acks = 1

\* C4 as claimed: after NotFound on all 3 attempts no fourth execution call is
\* made, the pipeline fails and the message is negatively-acknowledged.
C4_ExhaustionNacks ==
    \A w \in PipeWorkers :
        /\ Len(wk[w].resps) <= MaxTries
        /\ wk[w].resps = <<"notfound", "notfound", "notfound">> =>
              /\ wk[w].pc # "exec"
              /\ wk[w].result \in {"none", "fail"}
              /\ wk[w].pc \in {"rereg", "finish", "loop", "recv", "exited"}
              /\ Finished(w) => (wk[w].result = "fail" /\ wk[w].nacks = 1)

\* C4 as amended: after NotFound on all 3 attempts no fourth execution call is
\* made, the pipeline fails, and the message is negatively-acknowledged when
\* it is nackable and not negatively-acknowledged otherwise.
C4_ExhaustionNacksIfNackable ==
    \A w \in PipeWorkers :
        /\ Len(wk[w].resps) <= MaxTries
        /\ wk[w].resps = <<"notfound", "notfound", "notfound">> =>
              /\ wk[w].pc # "exec"
              /\ wk[w].result \in {"none", "fail"}
              /\ wk[w].pc \in {"rereg", "finish", "loop", "recv", "exited"}
              /\ wk[w].pc \in {"finish", "loop", "recv", "exited"} =>
                    wk[w].result = "fail"
              /\ Finished(w) =>
                    wk[w].nacks = IF wk[w].nackable THEN 1 ELSE 0

\* witness of C4: a nackable message whose feature met NotFound 3 times, with
\* every re-registration succeeding, has been negatively-acknowledged
C4_Witness ==
    \E w \in PipeWorkers :
        /\ wk[w].resps = <<"notfound", "notfound", "notfound">>
        /\ wk[w].regs = <<"ok", "ok", "ok">>
        /\ Finished(w) /\ wk[w].nackable /\ wk[w].nacks = 1

\* C5: the execution calls of a message go through the features in declared
\* order, one feature after the other, and once the execution of feature k has
\* failed with an error other than NotFound the pipeline has failed without a
\* retry or a re-registration for that answer and no execution call is made for
\* a feature after k.
C5_AllOrNothingFanOut ==
    \A w \in PipeWorkers :
        LET c == wk[w].calls
            r == wk[w].resps
        IN  /\ \A i \in 1 .. Len(c) :
                  /\ c[i] \in 1 .. Len(features)
                  /\ i = 1 => c[i] = 1
                  /\ i > 1 => c[i] \in {c[i - 1], c[i - 1] + 1}
            /\ (Len(r) > 0 /\ r[Len(r)] \in {"error", "baduuid"}) =>
                  /\ wk[w].result = "fail"
                  /\ wk[w].pc \in {"finish", "loop", "recv", "exited"}
                  /\ Len(wk[w].regs) = Len(r) - 1
                  /\ \A i \in 1 .. Len(c) : c[i] <= wk[w].fi
                  /\ c[Len(c)] = wk[w].fi

\* witness of C5: with two resolved features, the execution of the first has
\* failed with another error and the message has been finished
C5_Witness ==
    \E w \in PipeWorkers :
        /\ Len(features) = 2 /\ ~features[1].nil /\ ~features[2].nil
        /\ wk[w].fi = 1 /\ wk[w].resps = <<"error">>
        /\ Finished(w) /\ wk[w].calls = <<1>>

\* getFeature succeeds for reference r
Resolvable(r) ==
    /\ r.fetchOk /\ r.decodeOk /\ r.kind = "streaming"
    /\ r.schema = "ok" /\ r.prog = "ok"

\* C8: the resolved feature list holds, in declared order, exactly the
\* references whose fetch, decode, kind check and registration succeeded (a
\* failed one contributes no entry), and the pipeline only ever works on a
\* successfully resolved feature.
C8_FailedFeaturesSkipped ==
    gpc = "run" =>
        /\ Len(features) = Cardinality({i \in 1 .. Len(refs) : Resolvable(refs[i])})
        /\ \A k \in 1 .. Len(features) :
              /\ ~features[k].nil
              /\ features[k].ref \in 1 .. Len(refs)
              /\ Resolvable(refs[features[k].ref])
              /\ k > 1 => features[k - 1].ref < features[k].ref
        /\ \A i \in 1 .. Len(refs) :
              Resolvable(refs[i]) => \E k \in 1 .. Len(features) : features[k].ref = i
        /\ ~crashed

(***************************************************************************)
(* Further properties of the controller.                                   *)
(***************************************************************************)
\* C15: while an Update whose new definition is not of kind "streaming" is
\* being handled, no step cancels the scope of a generation: the generation
\* that was active stays as it was.
C15_NonStreamingUpdateIgnored ==
    [][(cur.op = "update" /\ cur.def.kind # "streaming" /\ hpc.pc # "idle") =>
          (Len(gens') = Len(gens) /\
           \A g \in GenIds : gens'[g].cancelled = gens[g].cancelled)]_vars

\* C16: the subscription of a generation is shut down at most once, only by
\* its teardown task and only after its scope was cancelled; and once the
\* scope of a generation whose Subscribe succeeded is cancelled, the Shutdown
\* is either done or still to come (its teardown task is waiting to run).
C16_ShutdownExactlyOnce ==
    \A g \in GenIds :
        /\ gens[g].shutdowns <= 1
        /\ gens[g].shutdowns = 1 => (gens[g].subscribed /\ gens[g].cancelled)
        /\ ~gens[g].subscribed => gens[g].shutdowns = 0
        /\ (gens[g].subscribed /\ gens[g].cancelled /\ gens[g].shutdowns = 0) =>
              (gens[g].td = "wait" /\ ~panicked)

\* C19: whenever a handling has left the readiness flag true, the generation
\* it started has an effective worker count of at least 1 and at least one
\* consumer task was spawned for it.
C19_ReadyImpliesWorker ==
    (Handled /\ ready) =>
        /\ StartedNow
        /\ gens[Len(gens)].workers >= 1
        /\ gens[Len(gens)].spawned >= 1

\* C20: whenever a generation's Subscribe succeeded and its scope is not
\* cancelled, m.cancel is not nil and is the cancel function of that
\* generation (no teardown task of an older generation has cleared it).
C20_CancelHandleOfActiveGeneration ==
    \A g \in GenIds :
        (gens[g].subscribed /\ ~gens[g].cancelled /\ ~panicked) => cancel = g

(***************************************************************************)
(* Further properties of the execution pipeline.                           *)
(***************************************************************************)
\* the last element of a sequence of answers is x
LastIs(q, x) == q # <<>> /\ q[Len(q)] = x

\* the task has left the loop of handle with an error
PipelineFailed(w) ==
    wk[w].result = "fail" /\ wk[w].pc \in {"finish", "loop", "recv", "exited"}

\* C13: a response that does not echo the request's uuid is an error at its
\* call site: getFeature fails on such a RegisterSchema response and on such
\* a LoadPyExpProgram response, the pipeline fails on such a LoadPyExpProgram
\* response to a re-registration and on such an ExecutePyExp response, and no
\* feature ever holds the fingerprint carried by a mismatching response.
C13_UuidMismatchIsAnError ==
    /\ \A i \in 1 .. Len(refs) :
          (refs[i].fetchOk /\ refs[i].decodeOk /\ refs[i].kind = "streaming") =>
              /\ refs[i].schema = "baduuid" => getFeature(i, refs[i]).err
              /\ (refs[i].schema = "ok" /\ refs[i].prog = "baduuid") =>
                    (getFeature(i, refs[i]).err /\ getFeature(i, refs[i]).ft.sha = 0)
    /\ \A k \in 1 .. Len(features) : features[k].sha # BadUuidAnswer.sha
    /\ \A w \in PipeWorkers :
          /\ LastIs(wk[w].regs, "baduuid") => PipelineFailed(w)
          /\ LastIs(wk[w].resps, "baduuid") => PipelineFailed(w)

\* witness of C13: a generation with a feature whose registration met a
\* mismatching uuid has handled a message whose re-registration met one too
C13_Witness ==
    /\ \E i \in 1 .. Len(refs) : refs[i].prog = "baduuid"
    /\ \E w \in PipeWorkers :
          /\ Finished(w) /\ LastIs(wk[w].regs, "baduuid")
          /\ wk[w].result = "fail" /\ wk[w].acks = 1

\* C14: every execution request about to be sent after a NotFound answer and
\* a successful re-registration carries the fingerprint that the
\* re-registration stored on the feature.
C14_RetryCarriesNewFingerprint ==
    \A w \in PipeWorkers :
        (wk[w].pc = "exec" /\ wk[w].tries > 1) =>
            wk[w].reqSha = features[wk[w].fi].sha

\* C17: once the scope of the generation is cancelled, the pipeline in flight
\* for a message is not aborted by it: none of its ExecutePyExp and
\* LoadPyExpProgram calls ends with the cancellation, it goes on to its end,
\* and the task then receives no further message.
C17_InFlightPipelineCompletes ==
    \A w \in PipeWorkers :
        scopeDone =>
            /\ ~LastIs(wk[w].resps, "canceled")
            /\ ~LastIs(wk[w].regs, "canceled")
            /\ wk[w].pc = "exec" => ENABLED WExecute(w, "ok")
            /\ wk[w].pc = "finish" => ENABLED WFinish(w)
            /\ wk[w].pc = "recv" => ~ENABLED WReceive(w, TRUE)

\* C18: no two consumer tasks are ever at unordered accesses of the same
\* Feature's fingerprint of which one is a write: while a task is at the
\* assignment of registerProgram, no other task is at the read of line 377
\* or at that assignment for the same Feature.
C18_FingerprintAccessesOrdered ==
    \A w \in DOMAIN wk : \A v \in DOMAIN wk \ {w} :
        \A k \in 1 .. Len(features) :
            WritesSha(w, k) => ~(ReadsSha(v, k) \/ WritesSha(v, k))

(***************************************************************************)
(* Properties of the schema resolution and of the headers extension.       *)
(***************************************************************************)
\* the feature's schema value as url.Parse reads it
Value == Parse(resolution.value)

\* the value has a scheme, a host and a fragment
HasAllParts ==
    /\ ~Value.err
    /\ Value.url.scheme # <<>> /\ Value.url.host # <<>> /\ Value.url.fragment # <<>>

SameOrigin ==
    Value.url.scheme = resolution.src.scheme /\ Value.url.host = resolution.src.host

\* C11: for a source that has a schema, once getFeature has resolved the
\* feature's schema value: an empty value gives exactly the source schema
\* URI; a value lacking a scheme, a host or a fragment gives a URI that
\* parses to the source's scheme and host with the whole value as its
\* fragment; in both cases RegisterSchema is not called; a value with all
\* three parts whose scheme and host are not the source's is kept and
\* RegisterSchema is called exactly once, failing the resolution exactly
\* when that call fails; one with the source's scheme and host is kept and
\* RegisterSchema is not called.
C11_SchemaResolution ==
    (resolution.pc = "out" /\ ~resolution.src.nil) =>
        LET out == resolution.out IN
        /\ ~out.panic
        /\ resolution.value = <<>> =>
              (out.schema = String(resolution.src) /\ out.regs = 0 /\ ~out.err)
        /\ (resolution.value # <<>> /\ ~HasAllParts) =>
              /\ ~Parse(out.schema).err
              /\ Parse(out.schema).url.scheme = resolution.src.scheme
              /\ Parse(out.schema).url.host = resolution.src.host
              /\ Parse(out.schema).url.fragment = resolution.value
              /\ out.regs = 0 /\ ~out.err
        /\ (HasAllParts /\ ~SameOrigin) =>
              /\ out.schema = resolution.value
              /\ out.regs = 1
              /\ out.err <=> resolution.answer # "ok"
        /\ (HasAllParts /\ SameOrigin) =>
              (out.schema = resolution.value /\ out.regs = 0 /\ ~out.err)

\* witness of C11: a value with a '#' but no scheme was resolved against a
\* source schema into the source's URI with the escaped value as fragment
C11_Witness ==
    /\ resolution.pc = "out"
    /\ resolution.src = URL(<<"a">>, <<"b">>, <<>>)
    /\ resolution.value = <<"b", "#", "a">>
    /\ resolution.out.schema = <<"a", "://", "b", "#", "b", "%23", "a">>

\* C12: once the "headers" extension is set, decoding it gives exactly the
\* key/value pairs of the message's metadata.
C12_HeaderRoundTrip ==
    envelope.pc = "set" =>
        LET decoded == ParseQuery(envelope.headers) IN
        /\ DOMAIN decoded = DOMAIN envelope.md
        /\ \A k \in DOMAIN envelope.md : decoded[k] = <<envelope.md[k]>>

====
